---- MODULE Spec2Model ----
(***************************************************************************)
(* Model of vggsfm/utils/data_processor.py: the Processor base class and   *)
(* its dataset adapters (CO3D, LINEMOD, LINEMOD_Onepose, Car).             *)
(*                                                                         *)
(* File names are sequences of tokens ("frame1", ".", "png"), so that      *)
(* split('.')[0], split('-')[0], replace('.png', '.jpg') and endswith()    *)
(* are computed as the code computes them.  A source path is a record      *)
(* [dir, name]; an output file is a record [dir, name, data].              *)
(***************************************************************************)
EXTENDS Integers, Sequences, FiniteSets, TLC

\* Bounds of the model.
MaxFrames == 3      \* frames a dataset holds at most
MaxStride == 2      \* largest stride requested
MaxCalls == 2       \* process() calls made on one adapter
MaxCoord == 3       \* largest box value and canvas side of the box-to-mask check
MaxVal == 1         \* rotations of the pose check: rows of entries built from 1..MaxVal
MaxT == 3           \* translations of the pose check: entries 0..MaxT

\* self.length = None (no frame-count limit configured)
None == -1

VARIABLES
    args,     \* the constructor's arguments
    disk,     \* the input dataset on disk (never written by process())
    proc,     \* the adapter object's fields (self.*)
    fs,       \* the files below the output root
    pc,       \* "new": not constructed, "ready": constructed, "dead": constructor raised
    err,      \* the exception the last operation raised, "ok" when none
    trace,    \* what the last operation did, in order
    runs,     \* one record per process() call made so far
    fin,      \* input of the pure function under check
    fout      \* its output

vars == <<args, disk, proc, fs, pc, err, trace, runs, fin, fout>>

--------------------------------------------------------------------------
(* Strings and paths *)

Num(n) == ToString(n)

RECURSIVE IndexOf(_, _, _)
IndexOf(s, tok, i) ==
    IF i > Len(s) THEN 0
    ELSE IF s[i] = tok THEN i
    ELSE IndexOf(s, tok, i + 1)

\* name.split(tok)[0]
SplitFirst(s, tok) ==
    LET k == IndexOf(s, tok, 1) IN
    IF k = 0 THEN s ELSE SubSeq(s, 1, k - 1)

\* name.replace('.png', '.jpg')
ReplacePngJpg(s) ==
    [i \in 1..Len(s) |->
        IF i > 1 /\ s[i - 1] = "." /\ s[i] = "png" THEN "jpg" ELSE s[i]]

\* name.endswith(sfx)
EndsWith(s, sfx) ==
    /\ Len(s) >= Len(sfx)
    /\ SubSeq(s, Len(s) - Len(sfx) + 1, Len(s)) = sfx

\* os.path.basename(path)
Basename(path) == path.name

IsPrefix(a, b) == Len(a) <= Len(b) /\ SubSeq(b, 1, Len(a)) = a

\* sorted(...) of a set of integers
RECURSIVE SortedSeq(_)
SortedSeq(S) ==
    IF S = {} THEN <<>>
    ELSE LET m == CHOOSE x \in S : \A y \in S : x <= y
         IN <<m>> \o SortedSeq(S \ {m})

NoPath == [dir |-> <<>>, name |-> <<>>]

Range(s) == {s[i] : i \in 1..Len(s)}

--------------------------------------------------------------------------
(* The output file system *)

OutputRoot == <<"out">>

File(dir, name, data) == [dir |-> dir, name |-> name, data |-> data]

Data(kind, src, val) == [kind |-> kind, src |-> src, val |-> val]

\* A pose or an intrinsics matrix held in memory: the file it was read from (if
\* it is a file of its own) and the numbers that identify it
Value(src, val) == [src |-> src, val |-> val]

\* os.path.exists(path), for a directory that holds files
PathExists(tree, path) == \E f \in tree : IsPrefix(path, f.dir)

\* shutil.rmtree(path)
Rmtree(tree, path) == {f \in tree : ~IsPrefix(path, f.dir)}

\* open(path, 'w') / cv2.imwrite / shutil.copy: create or overwrite one file
WriteFile(tree, dir, name, data) ==
    {f \in tree : ~(f.dir = dir /\ f.name = name)} \cup {File(dir, name, data)}

\* the files below a directory
Under(tree, path) == {f \in tree : IsPrefix(path, f.dir)}

--------------------------------------------------------------------------
(* class Processor *)

\* Processor.__init__, with the fields the subclasses add set to their defaults
Processor_init(data_path, output_path) ==
    [ data_path     |-> data_path,
      output_path   |-> output_path,
      length        |-> None,
      stride        |-> 1,
      rgb_files     |-> <<>>,
      mask_files    |-> <<>>,
      poses         |-> <<>>,
      intrinsics    |-> <<>>,
      dataset_name  |-> "None",
      sequence_name |-> "None",
      catogoery     |-> "None",
      split         |-> "None",
      metadata      |-> <<>>,
      camera_anno   |-> <<>>,
      pose_anno     |-> <<>>,
      train_data    |-> <<>>,
      test_data     |-> <<>> ]

Ok(tree) == [fs |-> tree, err |-> "ok"]

Raise(tree, e) == [fs |-> tree, err |-> e]

Processor_copy_rgb_file(tree, rgb_file, output_path) ==
    WriteFile(tree, output_path \o <<"images">>, Basename(rgb_file),
              Data("image", rgb_file, <<>>))

Processor_process_and_save_mask(tree, mask_file, output_path) ==
    WriteFile(tree, output_path \o <<"masks">>,
              ReplacePngJpg(Basename(mask_file)),
              Data("mask", mask_file, <<>>))

Processor_save_pose(tree, pose, file_name, output_path) ==
    WriteFile(tree, output_path \o <<"poses">>, file_name \o <<".", "txt">>,
              Data("pose", pose.src, pose.val))

Processor_save_intrinsics(tree, intrinsics, file_name, output_path) ==
    WriteFile(tree, output_path \o <<"intrinsics">>, file_name \o <<".", "txt">>,
              Data("intrinsics", intrinsics.src, intrinsics.val))

--------------------------------------------------------------------------
(* class CO3DProcessor *)

\* Result of a constructor or of a load: the object, the exception, the steps
Res(p, e, t) == [p |-> p, err |-> e, trace |-> t]

\* Faulty variant of CO3D_parse_annotations: both annotation files are read before the
\* sequence is looked up
CO3D_parse_annotations_eager(p, d) ==
    LET t2 == <<"read_sequence_anno", "read_frame_anno">>
        found == \E i \in 1..Len(d.sequence_anno) :
                     d.sequence_anno[i] = p.sequence_name
        meta == SelectSeq(d.frame_anno,
                          LAMBDA f : f.sequence_name = p.sequence_name)
        p2 == [p EXCEPT !.metadata = p.metadata \o meta]
    IN  IF ~found THEN Res(p2, "ValueError: Sequence info not found", t2)
        ELSE IF p.length # None /\ Len(p2.metadata) < p.length
             THEN Res(p2, "ValueError: Length of metadata is smaller", t2)
        ELSE IF p.length = 0 THEN Res(p2, "ValueError: empty sequence", t2)
        ELSE Res(p2, "ok", t2)

\* CO3DProcessor._parse_annotations
CO3D_parse_annotations(p, d) ==
    LET t1 == <<"read_sequence_anno">>
        found == \E i \in 1..Len(d.sequence_anno) :
                     d.sequence_anno[i] = p.sequence_name
        t2 == t1 \o <<"read_frame_anno">>
        meta == SelectSeq(d.frame_anno,
                          LAMBDA f : f.sequence_name = p.sequence_name)
        p2 == [p EXCEPT !.metadata = p.metadata \o meta]
    IN  IF ~found THEN Res(p, "ValueError: Sequence info not found", t1)
        ELSE IF p.length # None /\ Len(p2.metadata) < p.length
             THEN Res(p2, "ValueError: Length of metadata is smaller", t2)
        ELSE IF p.length = 0 THEN Res(p2, "ValueError: empty sequence", t2)
        ELSE Res(p2, "ok", t2)

\* CO3DProcessor.__init__
CO3D_init(a, d) ==
    IF a.sequence_name = "None"
    THEN Res(Processor_init(<<"data">>, OutputRoot),
             "AssertionError: Sequence name is required", <<>>)
    ELSE CO3D_parse_annotations(
             [Processor_init(<<"data">>, OutputRoot) EXCEPT
                 !.sequence_name = a.sequence_name,
                 !.catogoery = a.catogoery,
                 !.dataset_name = "CO3D",
                 !.length = a.length,
                 !.stride = a.stride], d)

Join(data_path, path) == [dir |-> data_path \o path.dir, name |-> path.name]

CO3D_load_rgb_files(p) ==
    [i \in 1..Len(p.metadata) |-> Join(p.data_path, p.metadata[i].image)]

CO3D_load_mask_files(p) ==
    [i \in 1..Len(p.metadata) |-> Join(p.data_path, p.metadata[i].mask)]

\* one entry per frame: the frame whose viewpoint the pose is converted from
CO3D_load_poses(p) ==
    [i \in 1..Len(p.metadata) |-> Value(NoPath, <<p.metadata[i].id>>)]

CO3D_load_intrinsics(p) ==
    [i \in 1..Len(p.metadata) |-> Value(NoPath, <<p.metadata[i].id>>)]

--------------------------------------------------------------------------
(* class LINEMODProcessor *)

\* self.catogoery_to_id[catogoery]; the model uses the first two entries
Catogoery_to_id(c) == IF c = "ape" THEN "000001" ELSE "000002"

\* LINEMODProcessor._parse_annotations: the values of each JSON dictionary, in
\* the dictionary's own order.  An annotation is identified by its key.
LINEMOD_parse_annotations(p, d) ==
    Res([p EXCEPT !.camera_anno = d.scene_camera,
                  !.pose_anno = d.scene_gt],
        "ok", <<"read_scene_camera", "read_scene_gt">>)

\* LINEMODProcessor.__init__
LINEMOD_init(a, d) ==
    LINEMOD_parse_annotations(
        [Processor_init(<<"data", Catogoery_to_id(a.catogoery)>>, OutputRoot)
            EXCEPT !.dataset_name = "LINEMOD",
                   !.catogoery = a.catogoery,
                   !.length = a.length,
                   !.stride = a.stride], d)

\* the name of frame n in <scene>/rgb; frame numbers are zero-padded to one
\* width, so sorted() orders the names as it orders the numbers
LINEMOD_rgb_name(n) == <<Num(n), ".", "png">>

LINEMOD_load_rgb_files(p, d) ==
    LET names == SortedSeq(d.rgb_dir) IN
    [i \in 1..Len(names) |->
        [dir |-> p.data_path \o <<"rgb">>, name |-> LINEMOD_rgb_name(names[i])]]

LINEMOD_load_mask_files(p, d) ==
    LET names == SortedSeq(d.rgb_dir) IN
    [i \in 1..Len(names) |->
        [dir |-> p.data_path \o <<"mask">>,
         name |-> SplitFirst(LINEMOD_rgb_name(names[i]), ".")
                      \o <<"_", "000000", ".", "png">>]]

LINEMOD_load_poses(p) ==
    [i \in 1..Len(p.pose_anno) |-> Value(NoPath, <<p.pose_anno[i]>>)]

LINEMOD_load_intrinsics(p) ==
    [i \in 1..Len(p.camera_anno) |-> Value(NoPath, <<p.camera_anno[i]>>)]

LINEMOD_process_and_save_mask(tree, mask_file, output_path) ==
    WriteFile(tree, output_path \o <<"masks">>,
              SplitFirst(Basename(mask_file), "_") \o <<".", "png">>,
              Data("mask", mask_file, <<>>))

--------------------------------------------------------------------------
(* class LINEMOD_OneposeProcessor *)

\* A directory entry of <split dir>/<catogoery>: frame id and file kind.
Onepose_suffix(sfx) ==
    CASE sfx = "color" -> <<"-", "color", ".", "png">>
      [] sfx = "box" -> <<"-", "box", ".", "txt">>
      [] sfx = "box_fasterrcnn" -> <<"-", "box", "_", "fasterrcnn", ".", "txt">>
      [] OTHER -> <<"-", "pose", ".", "txt">>

Onepose_name(e) == <<Num(e.id)>> \o Onepose_suffix(e.sfx)

\* position of the suffix in the order of sorted(): '-box.txt' <
\* '-box_fasterrcnn.txt' < '-color.png' < '-pose.txt'
Onepose_rank(sfx) ==
    CASE sfx = "box" -> 0
      [] sfx = "box_fasterrcnn" -> 1
      [] sfx = "color" -> 2
      [] OTHER -> 3

\* sorted(os.listdir(dir)): by frame id (ids have one width), then by suffix
SortedListing(entries) ==
    LET key(e) == 4 * e.id + Onepose_rank(e.sfx)
        keys == SortedSeq({key(e) : e \in entries})
    IN  [i \in 1..Len(keys) |->
            Onepose_name(CHOOSE e \in entries : key(e) = keys[i])]

\* the directory self.data_path names, and whether it exists
Onepose_dir(p, d) ==
    IF p.data_path = p.train_data \o <<p.catogoery>>
    THEN [exists |-> TRUE, entries |-> d.train_dir]
    ELSE [exists |-> d.test_exists, entries |-> d.test_dir]

\* [join(data_path, name) for name in sorted(listdir(data_path)) if name.endswith(sfx)]
Onepose_glob(p, d, sfx) ==
    LET names == SelectSeq(SortedListing(Onepose_dir(p, d).entries),
                           LAMBDA n : EndsWith(n, sfx))
    IN  [i \in 1..Len(names) |-> [dir |-> p.data_path, name |-> names[i]]]

\* LINEMOD_OneposeProcessor.__init__
Onepose_init(a, d) ==
    LET p == [Processor_init(<<"data">>, OutputRoot) EXCEPT
                 !.train_data = <<"data", "lm_full", "real_train">>,
                 !.test_data = <<"data", "lm_full", "real_test">>,
                 !.dataset_name = "LINEMOD_Onepose",
                 !.length = a.length,
                 !.stride = a.stride]
    IN  IF a.catogoery \notin d.train_categories
        THEN Res(p, "ValueError: Category not found", <<"listdir_train_data">>)
        ELSE Res([p EXCEPT !.catogoery = a.catogoery], "ok",
                 <<"listdir_train_data">>)

Onepose_load_rgb_files(p, d) ==
    Onepose_glob(p, d, Onepose_suffix("color"))

Onepose_load_mask_files(p, d) ==
    IF p.split = "train"
    THEN Onepose_glob(p, d, Onepose_suffix("box"))
    ELSE Onepose_glob(p, d, Onepose_suffix("box_fasterrcnn"))

\* one pose per *-pose.txt file, identified by the file it is read from
Onepose_load_poses(p, d) ==
    LET files == Onepose_glob(p, d, Onepose_suffix("pose")) IN
    [i \in 1..Len(files) |-> Value(files[i], <<>>)]

Onepose_load_intrinsics(p, d) == Onepose_load_poses(p, d)

Onepose_copy_rgb_file(tree, rgb_file, output_path) ==
    WriteFile(tree, output_path \o <<"images">>,
              SplitFirst(Basename(rgb_file), "-") \o <<".", "png">>,
              Data("image", rgb_file, <<>>))

\* the mask is drawn from the box file; the canvas size is read from
\* <prefix>-color.png, and cv2.imread returns None for a missing file
Onepose_process_and_save_mask(p, d, tree, mask_file, output_path) ==
    LET file_prefix == SplitFirst(Basename(mask_file), "-")
        rgb_name == file_prefix \o <<"-", "color", ".", "png">>
        listed == {n \in Range(SortedListing(Onepose_dir(p, d).entries)) :
                      n = rgb_name}
    IN  IF listed = {}
        THEN Raise(tree, "AttributeError: NoneType has no attribute shape")
        ELSE Ok(WriteFile(tree, output_path \o <<"masks">>,
                          file_prefix \o <<".", "png">>,
                          Data("mask", mask_file, <<>>)))

Onepose_save_pose(tree, pose, file_name, output_path) ==
    Processor_save_pose(tree, pose, SplitFirst(file_name, "-"), output_path)

\* writes self.K, whatever the intrinsics argument holds
Onepose_save_intrinsics(tree, intrinsics, file_name, output_path) ==
    WriteFile(tree, output_path \o <<"intrinsics">>,
              SplitFirst(file_name, "-") \o <<".", "txt">>,
              Data("K", NoPath, <<>>))

--------------------------------------------------------------------------
(* class CarProcessor *)

\* Faulty variant of Car_intrinsics: a camera model that is not one of the
\* three is unpacked as PINHOLE instead of raising
Car_intrinsics_fallback(model, params) ==
    IF model \in {"SIMPLE_PINHOLE", "SIMPLE_RADIAL"}
    THEN [err |-> "ok", val |-> <<params[1], params[1], params[2], params[3]>>]
    ELSE [err |-> "ok", val |-> <<params[1], params[2], params[3], params[4]>>]

\* the part of CarProcessor._parse_annotations that unpacks intr.params into
\* <<fx, fy, cx, cy>>
Car_intrinsics(model, params) ==
    IF model \in {"SIMPLE_PINHOLE", "SIMPLE_RADIAL"}
    THEN [err |-> "ok", val |-> <<params[1], params[1], params[2], params[3]>>]
    ELSE IF model = "PINHOLE"
    THEN [err |-> "ok", val |-> <<params[1], params[2], params[3], params[4]>>]
    ELSE [err |-> "ValueError: Unsupported camera model", val |-> <<>>]

RECURSIVE Car_parse_images(_, _, _)
\* the loop over the images of the COLMAP model; stops at the first exception
Car_parse_images(p, images, k) ==
    IF k > Len(images) THEN Res(p, "ok", <<"read_model">>)
    ELSE LET extr == images[k]
             intr == Car_intrinsics(extr.model, extr.params)
             image_path == [dir |-> p.data_path \o <<"images">>, name |-> extr.name]
             mask_path == [dir |-> p.data_path \o <<"masks">>, name |-> extr.name]
             dic == [extrinsics |-> Value(NoPath, <<extr.id>>),
                     intrinsics |-> Value(NoPath, intr.val),
                     image |-> image_path,
                     mask |-> mask_path]
         IN  IF intr.err # "ok" THEN Res(p, intr.err, <<"read_model">>)
             ELSE Car_parse_images([p EXCEPT !.metadata = Append(p.metadata, dic)],
                                   images, k + 1)

\* CarProcessor._parse_annotations; its last line formats len(self.metadata[1])
Car_parse_annotations(p, d) ==
    LET r == Car_parse_images([p EXCEPT !.metadata = <<>>], d.images, 1) IN
    IF r.err # "ok" THEN r
    ELSE IF Len(r.p.metadata) < 2
         THEN Res(r.p, "IndexError: list index out of range", r.trace)
    ELSE r

\* CarProcessor.__init__
Car_init(a, d) ==
    Car_parse_annotations(
        [Processor_init(<<"data">>, OutputRoot) EXCEPT
            !.dataset_name = "Car",
            !.length = a.length,
            !.stride = a.stride], d)

Car_load_rgb_files(p) == [i \in 1..Len(p.metadata) |-> p.metadata[i].image]

Car_load_mask_files(p) == [i \in 1..Len(p.metadata) |-> p.metadata[i].mask]

Car_load_poses(p) == [i \in 1..Len(p.metadata) |-> p.metadata[i].extrinsics]

Car_load_intrinsics(p) == [i \in 1..Len(p.metadata) |-> p.metadata[i].intrinsics]

--------------------------------------------------------------------------
(* The four load operations and the overridden writers, as Python's method *)
(* lookup resolves them for the adapter's class                            *)

Loaded(val) == [err |-> "ok", val |-> val]

LoadFailed(e) == [err |-> e, val |-> <<>>]

\* os.listdir(self.data_path) raises when the directory does not exist
Onepose_listable(p, d) == Onepose_dir(p, d).exists

\* read_pose asserts that each *-pose.txt file holds a 3x4 matrix
Onepose_poses_readable(p, d) ==
    \/ ~d.train_pose_malformed
    \/ p.data_path # p.train_data \o <<p.catogoery>>
    \/ Onepose_glob(p, d, Onepose_suffix("pose")) = <<>>

\* the outcome of LINEMOD_OneposeProcessor._load_poses
Onepose_poses_loaded(p, d) ==
    IF ~Onepose_listable(p, d) THEN LoadFailed("FileNotFoundError")
    ELSE IF ~Onepose_poses_readable(p, d)
    THEN LoadFailed("AssertionError: File should contain a 3x4 matrix")
    ELSE Loaded(Onepose_load_poses(p, d))

load_rgb_files(p, d) ==
    CASE p.dataset_name = "CO3D" -> Loaded(CO3D_load_rgb_files(p))
      [] p.dataset_name = "LINEMOD" -> Loaded(LINEMOD_load_rgb_files(p, d))
      [] p.dataset_name = "LINEMOD_Onepose" ->
            IF Onepose_listable(p, d) THEN Loaded(Onepose_load_rgb_files(p, d))
            ELSE LoadFailed("FileNotFoundError")
      [] p.dataset_name = "Car" -> Loaded(Car_load_rgb_files(p))
      [] OTHER -> LoadFailed("NotImplementedError")

load_mask_files(p, d) ==
    CASE p.dataset_name = "CO3D" -> Loaded(CO3D_load_mask_files(p))
      [] p.dataset_name = "LINEMOD" -> Loaded(LINEMOD_load_mask_files(p, d))
      [] p.dataset_name = "LINEMOD_Onepose" ->
            IF Onepose_listable(p, d) THEN Loaded(Onepose_load_mask_files(p, d))
            ELSE LoadFailed("FileNotFoundError")
      [] p.dataset_name = "Car" -> Loaded(Car_load_mask_files(p))
      [] OTHER -> LoadFailed("NotImplementedError")

load_poses(p, d) ==
    CASE p.dataset_name = "CO3D" -> Loaded(CO3D_load_poses(p))
      [] p.dataset_name = "LINEMOD" -> Loaded(LINEMOD_load_poses(p))
      [] p.dataset_name = "LINEMOD_Onepose" -> Onepose_poses_loaded(p, d)
      [] p.dataset_name = "Car" -> Loaded(Car_load_poses(p))
      [] OTHER -> LoadFailed("NotImplementedError")

load_intrinsics(p, d) ==
    CASE p.dataset_name = "CO3D" -> Loaded(CO3D_load_intrinsics(p))
      [] p.dataset_name = "LINEMOD" -> Loaded(LINEMOD_load_intrinsics(p))
      [] p.dataset_name = "LINEMOD_Onepose" ->
            IF Onepose_poses_loaded(p, d).err # "ok" THEN Onepose_poses_loaded(p, d)
            ELSE Loaded(Onepose_load_intrinsics(p, d))
      [] p.dataset_name = "Car" -> Loaded(Car_load_intrinsics(p))
      [] OTHER -> LoadFailed("NotImplementedError")

copy_rgb_file(p, tree, rgb_file) ==
    IF p.dataset_name = "LINEMOD_Onepose"
    THEN Onepose_copy_rgb_file(tree, rgb_file, p.output_path)
    ELSE Processor_copy_rgb_file(tree, rgb_file, p.output_path)

process_and_save_mask(p, d, tree, mask_file) ==
    CASE p.dataset_name = "LINEMOD" ->
            Ok(LINEMOD_process_and_save_mask(tree, mask_file, p.output_path))
      [] p.dataset_name = "LINEMOD_Onepose" ->
            Onepose_process_and_save_mask(p, d, tree, mask_file, p.output_path)
      [] OTHER ->
            Ok(Processor_process_and_save_mask(tree, mask_file, p.output_path))

save_pose(p, tree, pose, file_name) ==
    IF p.dataset_name = "LINEMOD_Onepose"
    THEN Onepose_save_pose(tree, pose, file_name, p.output_path)
    ELSE Processor_save_pose(tree, pose, file_name, p.output_path)

save_intrinsics(p, tree, intrinsics, file_name) ==
    IF p.dataset_name = "LINEMOD_Onepose"
    THEN Onepose_save_intrinsics(tree, intrinsics, file_name, p.output_path)
    ELSE Processor_save_intrinsics(tree, intrinsics, file_name, p.output_path)

--------------------------------------------------------------------------
(* Processor._load_data, Processor._dump_data, Processor.process *)

\* Processor._load_data, one operator per assignment: st is the object, the
\* exception raised so far and the steps taken; an exception skips the rest
Load_rgb(st, d) ==
    IF st.err # "ok" THEN st
    ELSE LET r == load_rgb_files(st.p, d) IN
         IF r.err # "ok" THEN Res(st.p, r.err, Append(st.trace, "load_rgb_files"))
         ELSE Res([st.p EXCEPT !.rgb_files = r.val], "ok",
                  Append(st.trace, "load_rgb_files"))

Load_mask(st, d) ==
    IF st.err # "ok" THEN st
    ELSE LET r == load_mask_files(st.p, d) IN
         IF r.err # "ok" THEN Res(st.p, r.err, Append(st.trace, "load_mask_files"))
         ELSE Res([st.p EXCEPT !.mask_files = r.val], "ok",
                  Append(st.trace, "load_mask_files"))

Load_poses(st, d) ==
    IF st.err # "ok" THEN st
    ELSE LET r == load_poses(st.p, d) IN
         IF r.err # "ok" THEN Res(st.p, r.err, Append(st.trace, "load_poses"))
         ELSE Res([st.p EXCEPT !.poses = r.val], "ok",
                  Append(st.trace, "load_poses"))

Load_intrinsics(st, d) ==
    IF st.err # "ok" THEN st
    ELSE LET r == load_intrinsics(st.p, d) IN
         IF r.err # "ok" THEN Res(st.p, r.err, Append(st.trace, "load_intrinsics"))
         ELSE Res([st.p EXCEPT !.intrinsics = r.val], "ok",
                  Append(st.trace, "load_intrinsics"))

\* "if no frame selected settings then select all"
Load_default_length(st) ==
    IF st.err = "ok" /\ st.p.length = None
    THEN [st EXCEPT !.p.length = Len(st.p.rgb_files)]
    ELSE st

\* Processor._load_data
Processor_load_data(p, d) ==
    Load_default_length(
        Load_intrinsics(Load_poses(Load_mask(Load_rgb(Res(p, "ok", <<>>), d), d), d), d))

\* The loop body of _dump_data for frame index i (0-based, as in Python), one
\* operator per statement group; st is the tree and the exception raised so far
Dump_rgb(p, tree, i) ==
    IF i + 1 > Len(p.rgb_files) THEN Raise(tree, "IndexError")
    ELSE Ok(copy_rgb_file(p, tree, p.rgb_files[i + 1]))

Dump_mask(p, d, st, i) ==
    IF st.err # "ok" \/ p.mask_files = <<>> THEN st
    ELSE IF i + 1 > Len(p.mask_files) THEN Raise(st.fs, "IndexError")
    ELSE process_and_save_mask(p, d, st.fs, p.mask_files[i + 1])

\* os.path.basename(rgb_file).split('.')[0]
FrameFileName(p, i) == SplitFirst(Basename(p.rgb_files[i + 1]), ".")

Dump_pose(p, st, i) ==
    IF st.err # "ok" \/ p.poses = <<>> THEN st
    ELSE IF i + 1 > Len(p.poses) THEN Raise(st.fs, "IndexError")
    ELSE Ok(save_pose(p, st.fs, p.poses[i + 1], FrameFileName(p, i)))

Dump_intrinsics(p, st, i) ==
    IF st.err # "ok" \/ p.intrinsics = <<>> THEN st
    ELSE IF i + 1 > Len(p.intrinsics) THEN Raise(st.fs, "IndexError")
    ELSE Ok(save_intrinsics(p, st.fs, p.intrinsics[i + 1], FrameFileName(p, i)))

DumpFrame(p, d, tree, i) ==
    Dump_intrinsics(p, Dump_pose(p, Dump_mask(p, d, Dump_rgb(p, tree, i), i), i), i)

Stepped(r, t) == [fs |-> r.fs, err |-> r.err, trace |-> t]

RECURSIVE DumpFrames(_, _, _, _)
\* for i in range(i, self.length, self.stride); st carries the tree, the
\* exception and the steps; stops at the first exception
DumpFrames(p, d, st, i) ==
    IF i >= p.length \/ st.err # "ok" THEN st
    ELSE DumpFrames(p, d,
                    Stepped(DumpFrame(p, d, st.fs, i), Append(st.trace, "frame")),
                    i + p.stride)

DumpStart(tree, t) == [fs |-> tree, err |-> "ok", trace |-> t]

\* Processor._dump_data
Processor_dump_data(p, d, tree) ==
    IF PathExists(tree, p.output_path)
    THEN DumpFrames(p, d, DumpStart(Rmtree(tree, p.output_path),
                                    <<"rmtree", "makedirs">>), 0)
    ELSE DumpFrames(p, d, DumpStart(tree, <<"makedirs">>), 0)

Out(p, tree, e, t) == [p |-> p, fs |-> tree, err |-> e, trace |-> t]

\* the steps of the load followed by those of the dump
Dumped(l, w) == Out(l.p, w.fs, w.err, l.trace \o w.trace)

\* Faulty variant of DumpAfterLoad: the dump runs whether or not the load raised
DumpAfterLoad_unguarded(l, d, tree) ==
    Dumped(l, Processor_dump_data(l.p, d, tree))

\* self._dump_data(), reached only when self._load_data() raised nothing
DumpAfterLoad(l, d, tree) ==
    IF l.err # "ok" THEN Out(l.p, tree, l.err, l.trace)
    ELSE Dumped(l, Processor_dump_data(l.p, d, tree))

\* self._load_data(); self._dump_data()
LoadAndDump(p, d, tree) == DumpAfterLoad(Processor_load_data(p, d), d, tree)

\* Processor.process
Processor_process(p, d, tree) ==
    IF p.dataset_name = "None"
    THEN Out(p, tree, "ValueError: The base class cannot be used directly", <<>>)
    ELSE LoadAndDump(p, d, tree)

\* os.path.dirname(path)
Dirname(path) == SubSeq(path, 1, Len(path) - 1)

\* Faulty variant of Onepose_recover_output_path: the output path is left as the run set it
Onepose_keep_output_path(p) == p

\* "recover the output path", the last statement of LINEMOD_OneposeProcessor.process
Onepose_recover_output_path(p) ==
    [p EXCEPT !.output_path = Dirname(p.output_path)]

\* the end of LINEMOD_OneposeProcessor.process: an exception of the load or the
\* dump propagates, and the last statement is not reached
Onepose_finish(r) ==
    IF r.err # "ok" THEN r
    ELSE [r EXCEPT !.p = Onepose_recover_output_path(r.p)]

\* the assignments LINEMOD_OneposeProcessor.process makes before loading
Onepose_enter(p, split) ==
    [p EXCEPT !.split = split,
              !.output_path = p.output_path \o <<split>>,
              !.data_path = (IF split = "train" THEN p.train_data
                             ELSE p.test_data) \o <<p.catogoery>>]

\* LINEMOD_OneposeProcessor.process(split)
Onepose_process(p, d, tree, split) ==
    IF split \notin {"train", "test"}
    THEN Out([p EXCEPT !.split = split], tree,
             "ValueError: Split should be either train or test", <<>>)
    ELSE IF p.dataset_name = "None"
    THEN Out(Onepose_enter(p, split), tree,
             "ValueError: The base class cannot be used directly", <<>>)
    ELSE Onepose_finish(LoadAndDump(Onepose_enter(p, split), d, tree))

--------------------------------------------------------------------------
(* The datasets and arguments the model runs the adapters on *)

Lengths == {None} \cup 0..(MaxFrames + 1)

Strides == 1..MaxStride

NoDisk ==
    [ sequence_anno    |-> <<>>,
      frame_anno       |-> <<>>,
      rgb_dir          |-> {},
      scene_camera     |-> <<>>,
      scene_gt         |-> <<>>,
      train_categories |-> {},
      train_dir        |-> {},
      test_dir         |-> {},
      test_exists      |-> FALSE,
      train_pose_malformed |-> FALSE,
      images           |-> <<>> ]

Args(kind, length, stride, sequence_name, catogoery) ==
    [ kind |-> kind, length |-> length, stride |-> stride,
      sequence_name |-> sequence_name, catogoery |-> catogoery ]

\* what the output root holds before the adapter runs: nothing, or files of an
\* earlier conversion
StaleTree ==
    { File(OutputRoot \o <<"images">>, <<"old", ".", "png">>,
           Data("image", NoPath, <<>>)),
      File(OutputRoot \o <<"train", "poses">>, <<"old", ".", "txt">>,
           Data("pose", NoPath, <<>>)) }

PriorTrees == { {}, StaleTree }

\* frame i of sequence seqA.  "plain": frame1.jpg with mask frame1.png;
\* "dotted": shot.1.png with mask m1.png
CO3D_frame(i, style) ==
    [ sequence_name |-> "seqA",
      id    |-> i,
      image |-> [dir |-> <<"hotdog", "seqA", "images">>,
                 name |-> IF style = "plain"
                          THEN <<"frame" \o Num(i), ".", "jpg">>
                          ELSE <<"shot", ".", Num(i), ".", "png">>],
      mask  |-> [dir |-> <<"hotdog", "seqA", "masks">>,
                 name |-> IF style = "plain"
                          THEN <<"frame" \o Num(i), ".", "png">>
                          ELSE <<"m" \o Num(i), ".", "png">>] ]

\* frame_annotations.jgz: one frame of another sequence, then n frames of seqA
CO3D_frames(n, style) ==
    <<[CO3D_frame(0, "plain") EXCEPT
          !.sequence_name = "seqB",
          !.image.dir = <<"hotdog", "seqB", "images">>,
          !.mask.dir = <<"hotdog", "seqB", "masks">>]>>
        \o [i \in 1..n |-> CO3D_frame(i, style)]

Frames == 0..(MaxFrames - 1)

Reverse(s) == [i \in 1..Len(s) |-> s[Len(s) + 1 - i]]

\* the key orders of an annotation dictionary: any set of frame indices,
\* written in increasing or in decreasing order
KeySeqs == {SortedSeq(S) : S \in SUBSET Frames}
               \cup {Reverse(SortedSeq(S)) : S \in SUBSET Frames}

DropLast(s) == IF s = <<>> THEN s ELSE SubSeq(s, 1, Len(s) - 1)

\* <split dir>/<catogoery> holding frames 0..n-1, each with its colour image,
\* box file and pose file; a defect removes the last pose or the first box
\* ("notest" and "badpose" leave the entries as they are: the first removes the
\* test directory, the second makes the train pose files hold no 3x4 matrix)
Onepose_entries(n, box, defect) ==
    { e \in [id : 0..(n - 1), sfx : {"color", box, "pose"}] :
        /\ ~(defect = "nopose" /\ e.sfx = "pose" /\ e.id = n - 1)
        /\ ~(defect = "nobox" /\ e.sfx = box /\ e.id = 0) }

\* the images of the COLMAP model: the last one taken with camera model last,
\* the others with camera model model
Car_images(n, model, last) ==
    [i \in 1..n |->
        [ id |-> i, name |-> <<"img" \o Num(i), ".", "png">>,
          model |-> IF i = n THEN last ELSE model,
          params |-> <<10 + i, 20 + i, 30 + i, 40 + i>> ]]

CameraModels == {"SIMPLE_PINHOLE", "SIMPLE_RADIAL", "PINHOLE", "OPENCV"}

InitCommon ==
    /\ proc = Processor_init(<<"data">>, OutputRoot)
    /\ pc = "new"
    /\ err = "ok"
    /\ trace = <<>>
    /\ runs = <<>>
    /\ fin = <<>>
    /\ fout = <<>>
    /\ fs \in PriorTrees

InitBase ==
    /\ args = Args("Processor", None, 1, "None", "None")
    /\ disk = NoDisk

InitCO3D ==
    \E length \in Lengths, stride \in Strides, n \in 0..MaxFrames,
       style \in {"plain", "dotted"}, name \in {"seqA", "seqX", "None"} :
        /\ args = Args("CO3D", length, stride, name, "hotdog")
        /\ disk = [NoDisk EXCEPT !.sequence_anno = <<"seqB", "seqA">>,
                                 !.frame_anno = CO3D_frames(n, style)]

InitLINEMOD ==
    \E length \in Lengths, stride \in Strides, rgb \in SUBSET Frames,
       gt \in KeySeqs, short \in BOOLEAN :
        /\ args = Args("LINEMOD", length, stride, "None", "ape")
        /\ disk = [NoDisk EXCEPT !.rgb_dir = rgb,
                                 !.scene_gt = gt,
                                 !.scene_camera = IF short THEN DropLast(gt) ELSE gt]

InitOnepose ==
    \E length \in Lengths, stride \in Strides, nTrain \in 0..MaxFrames,
       nTest \in 0..MaxFrames, defect \in {"none", "nopose", "nobox", "notest", "badpose"},
       catogoery \in {"ape", "cat"} :
        /\ defect # "none" => nTest = nTrain
        /\ catogoery # "ape" => (defect = "none" /\ nTest = nTrain)
        /\ args = Args("LINEMOD_Onepose", length, stride, "None", catogoery)
        /\ disk = [NoDisk EXCEPT
                      !.train_categories = {"ape"},
                      !.train_dir = Onepose_entries(nTrain, "box", defect),
                      !.test_dir = Onepose_entries(nTest, "box_fasterrcnn", defect),
                      !.test_exists = (defect # "notest"),
                      !.train_pose_malformed = (defect = "badpose")]

InitCar ==
    \E length \in Lengths, stride \in Strides, n \in 0..MaxFrames,
       model \in CameraModels, last \in CameraModels :
        /\ args = Args("Car", length, stride, "None", "None")
        /\ disk = [NoDisk EXCEPT !.images = Car_images(n, model, last)]

Init ==
    /\ InitCommon
    /\ \/ InitBase
       \/ InitCO3D
       \/ InitLINEMOD
       \/ InitOnepose
       \/ InitCar

--------------------------------------------------------------------------
(* Actions: one per constructor, one per process() *)

Constructed(r) ==
    /\ pc = "new"
    /\ proc' = r.p
    /\ pc' = IF r.err = "ok" THEN "ready" ELSE "dead"
    /\ err' = r.err
    /\ trace' = r.trace
    /\ UNCHANGED <<args, disk, fs, runs, fin, fout>>

ConstructProcessor ==
    /\ args.kind = "Processor"
    /\ Constructed(Res(Processor_init(<<"data">>, OutputRoot), "ok", <<>>))

ConstructCO3D == args.kind = "CO3D" /\ Constructed(CO3D_init(args, disk))

ConstructLINEMOD == args.kind = "LINEMOD" /\ Constructed(LINEMOD_init(args, disk))

ConstructOnepose ==
    args.kind = "LINEMOD_Onepose" /\ Constructed(Onepose_init(args, disk))

ConstructCar == args.kind = "Car" /\ Constructed(Car_init(args, disk))

\* the effect of one process() call; runs records the call: its split, the
\* directory it dumps to, its exception, and the tree before and after it
Processed(r, split, outdir) ==
    /\ proc' = r.p
    /\ fs' = r.fs
    /\ err' = r.err
    /\ trace' = r.trace
    /\ runs' = Append(runs, [split |-> split, outdir |-> outdir, err |-> r.err,
                             before |-> fs, tree |-> r.fs, trace |-> r.trace])
    /\ UNCHANGED <<args, disk, pc, fin, fout>>

\* processor.process()
Process ==
    /\ pc = "ready"
    /\ proc.dataset_name # "LINEMOD_Onepose"
    /\ Len(runs) < MaxCalls
    /\ Processed(Processor_process(proc, disk, fs), "None", proc.output_path)

\* processor.process(split)
ProcessOnepose ==
    /\ pc = "ready"
    /\ proc.dataset_name = "LINEMOD_Onepose"
    /\ Len(runs) < MaxCalls
    /\ \E split \in {"train", "test", "val"} :
           Processed(Onepose_process(proc, disk, fs, split), split,
                     Onepose_enter(proc, split).output_path)

Next ==
    \/ ConstructProcessor
    \/ ConstructCO3D
    \/ ConstructLINEMOD
    \/ ConstructOnepose
    \/ ConstructCar
    \/ Process
    \/ ProcessOnepose

Spec == Init /\ [][Next]_vars

--------------------------------------------------------------------------
(* Pure functions of the adapters, each checked under a specification of   *)
(* its own: Init draws the input, the action applies the function          *)

\* the adapter variables, at rest while a pure function is checked
Idle ==
    /\ args = Args("Processor", None, 1, "None", "None")
    /\ disk = NoDisk
    /\ proc = Processor_init(<<"data">>, OutputRoot)
    /\ fs = {}
    /\ pc = "new"
    /\ err = "ok"
    /\ trace = <<>>
    /\ runs = <<>>

Applied(y) ==
    /\ fout = <<>>
    /\ fout' = <<y>>
    /\ UNCHANGED <<args, disk, proc, fs, pc, err, trace, runs, fin>>

(* Mask pixels: mask[mask > t] = 255; mask = cv2.bitwise_not(mask), on uint8 *)

\* cv2.bitwise_not on one uint8 pixel
BitwiseNot(v) == 255 - v

\* Processor._process_and_save_mask, per pixel
Processor_mask_pixel(v) == BitwiseNot(IF v > 127 THEN 255 ELSE v)

\* LINEMODProcessor._process_and_save_mask, per pixel
LINEMOD_mask_pixel(v) == BitwiseNot(IF v > 0 THEN 255 ELSE v)

mask_pixel(cls, v) ==
    IF cls = "LINEMOD" THEN LINEMOD_mask_pixel(v) ELSE Processor_mask_pixel(v)

\* the binarization threshold of each implementation
Threshold(cls) == IF cls = "LINEMOD" THEN 0 ELSE 127

InitMask ==
    /\ Idle
    /\ fin \in [cls : {"Processor", "LINEMOD"}, v : 0..255]
    /\ fout = <<>>

ApplyMask == Applied(mask_pixel(fin.cls, fin.v))

SpecMask == InitMask /\ [][ApplyMask]_vars

(* CO3D pose conversion: read_pose of CO3DProcessor._load_poses *)

\* T[:, :2] *= -1
CO3D_flip_T(T) == [j \in 1..3 |-> IF j <= 2 THEN -T[j] ELSE T[j]]

\* R[:, :, :2] *= -1
CO3D_flip_R(R) == [i \in 1..3 |-> [j \in 1..3 |-> IF j <= 2 THEN -R[i][j] ELSE R[i][j]]]

\* Faulty variant of CO3D_permute_R: the rotation is not transposed
CO3D_keep_R(R) == R

\* R.permute(0, 2, 1)
CO3D_permute_R(R) == [i \in 1..3 |-> [j \in 1..3 |-> R[j][i]]]

\* np.eye(4)
Eye4 == [i \in 1..4 |-> [j \in 1..4 |-> IF i = j THEN 1 ELSE 0]]

\* pose[:3, :3] = R; pose[:3, 3] = T
SetPose(pose, R, T) ==
    [i \in 1..4 |-> [j \in 1..4 |->
        IF i <= 3 /\ j <= 3 THEN R[i][j]
        ELSE IF i <= 3 THEN T[i]
        ELSE pose[i][j]]]

CO3D_read_pose(R, T) ==
    SetPose(Eye4, CO3D_permute_R(CO3D_flip_R(R)), CO3D_flip_T(T))

\* rows of the rotations tried: the unit vectors and rows of distinct entries
PoseRows ==
    {<<1, 0, 0>>, <<0, 1, 0>>, <<0, 0, 1>>}
        \cup {<<v, v + 3, -(v + 6)>> : v \in 1..MaxVal}

PoseTs == [1..3 -> 0..MaxT]

InitPose ==
    /\ Idle
    /\ fin \in [R : [1..3 -> PoseRows], T : PoseTs]
    /\ fout = <<>>

ApplyPose == Applied(CO3D_read_pose(fin.R, fin.T))

SpecPose == InitPose /\ [][ApplyPose]_vars

(* LINEMOD_Onepose box file to mask *)

Min(a, b) == IF a < b THEN a ELSE b

Max(a, b) == IF a > b THEN a ELSE b

\* whether index k of an axis of n elements lies in the Python slice a:b
InSlice(k, a, b, n) ==
    LET lo == IF a < 0 THEN Max(a + n, 0) ELSE Min(a, n)
        hi == IF b < 0 THEN Max(b + n, 0) ELSE Min(b, n)
    IN  lo <= k /\ k < hi

\* Faulty variant of Onepose_box_corners: the four values are corners in both modes
Onepose_box_as_corners(split, box) == <<box[1], box[2], box[3], box[4]>>

\* the corners (x1, y1, x2, y2) read from the four lines of the box file
Onepose_box_corners(split, box) ==
    IF split = "train"
    THEN <<box[1], box[2], box[1] + box[3], box[2] + box[4]>>
    ELSE <<box[1], box[2], box[3], box[4]>>

\* mask = np.ones(rgb.shape[:2]) * 255; mask[y1:y2, x1:x2] = 0
Onepose_box_mask(split, box, H, W) ==
    LET c == Onepose_box_corners(split, box) IN
    [y \in 0..(H - 1) |-> [x \in 0..(W - 1) |->
        IF InSlice(y, c[2], c[4], H) /\ InSlice(x, c[1], c[3], W)
        THEN 0 ELSE 255]]

\* the values a box file holds: pixel coordinates and sizes
Coords == 0..MaxCoord

InitBox ==
    /\ Idle
    /\ fin \in [split : {"train", "test"}, box : [1..4 -> Coords],
                H : 1..MaxCoord, W : 1..MaxCoord]
    /\ fout = <<>>

ApplyBox == Applied(Onepose_box_mask(fin.split, fin.box, fin.H, fin.W))

SpecBox == InitBox /\ [][ApplyBox]_vars

--------------------------------------------------------------------------
(* Properties *)

LastRun == runs[Len(runs)]

\* the last operation was a process() call whose _dump_data started
DumpStarted == runs # <<>> /\ "makedirs" \in Range(trace)

\* the last operation was a process() call that returned without an exception
RunSucceeded == runs # <<>> /\ LastRun.err = "ok"

\* the frame indices of range(0, length, stride)
Indices(length, stride) == {i \in 0..(length - 1) : i % stride = 0}

\* os.path.splitext(name)[0]
StripExt(name) ==
    IF Len(name) >= 2 /\ name[Len(name) - 1] = "."
    THEN SubSeq(name, 1, Len(name) - 2)
    ELSE name

\* the directories of the output tree the loaded lists make _dump_data write
WrittenDirs ==
    {"images"}
        \cup (IF proc.mask_files # <<>> THEN {"masks"} ELSE {})
        \cup (IF proc.poses # <<>> THEN {"poses"} ELSE {})
        \cup (IF proc.intrinsics # <<>> THEN {"intrinsics"} ELSE {})

\* C1: whenever _dump_data has started, the four loaded lists (rgb_files,
\* mask_files, poses, intrinsics) have the same length, for every adapter and
\* every dataset: a dataset in which they differ never gets as far as the dump.
C1_ListsEqualBeforeDump ==
    DumpStarted =>
        /\ Len(proc.mask_files) = Len(proc.rgb_files)
        /\ Len(proc.poses) = Len(proc.rgb_files)
        /\ Len(proc.intrinsics) = Len(proc.rgb_files)

\* C2: a mask pixel above the binarization threshold of its implementation
\* (127 in Processor, 0 in LINEMODProcessor) is written as 0, and a pixel at or
\* below the threshold is written as 255.
C2_MaskBinarized ==
    fout # <<>> =>
        fout[1] = IF fin.v > Threshold(fin.cls) THEN 0 ELSE 255

\* C3: an adapter asked for length = 0 never survives its constructor, so that
\* process() is never run on it and the output root is left as it was.
C3_EmptySequenceRejected ==
    args.length = 0 => (pc # "ready" /\ runs = <<>>)

\* C4: _dump_data never starts with an explicitly requested length larger than
\* the number of frames the adapter has: such a request is rejected before the
\* output root is deleted, and not by an index error in the middle of the dump.
C4_TooLongRejected ==
    (args.length # None /\ DumpStarted) => args.length <= Len(proc.rgb_files)

C6_SharedStem ==
    RunSucceeded =>
        \A i \in Indices(proc.length, proc.stride) :
            \A sub \in WrittenDirs :
                \E f \in fs :
                    /\ f.dir = LastRun.outdir \o <<sub>>
                    /\ StripExt(f.name) = StripExt(Basename(proc.rgb_files[i + 1]))

\* the length the claim expects a run to use: the configured limit or, when none
\* was configured, the length of the RGB list
ExpectedLength ==
    IF args.length # None THEN args.length ELSE Len(proc.rgb_files)

\* C7: after a process() call that returned normally, the directory dumped to
\* holds exactly one image per frame index of range(0, length, stride), one
\* mask, pose and intrinsics file per index when those lists are non-empty, and
\* nothing else, where length is the configured limit or else the length of the
\* RGB list.
C7_ExactTree ==
    RunSucceeded =>
        LET out == LastRun.outdir
            t == Under(fs, out)
            n == Cardinality(Indices(ExpectedLength, proc.stride))
            Count(sub) == Cardinality({f \in t : f.dir = out \o <<sub>>})
        IN  /\ Count("images") = n
            /\ \A sub \in {"masks", "poses", "intrinsics"} :
                   Count(sub) = IF sub \in WrittenDirs THEN n ELSE 0
            /\ \A f \in t :
                   \E sub \in {"images", "masks", "poses", "intrinsics"} :
                       f.dir = out \o <<sub>>

\* a CO3D adapter was constructed with a sequence name that is given but absent
\* from sequence_annotations.jgz
CO3D_AbsentSequence ==
    /\ args.kind = "CO3D"
    /\ pc # "new"
    /\ args.sequence_name # "None"
    /\ args.sequence_name \notin Range(disk.sequence_anno)

\* C8 (as stated): a CO3D adapter given an absent sequence name raises before
\* it has read any file, and never reaches load() or dump().
C8_NoFileRead ==
    CO3D_AbsentSequence =>
        (pc = "dead" /\ err # "ok" /\ trace = <<>> /\ runs = <<>>)

\* C8 (amended): a CO3D adapter given an absent sequence name raises having read
\* the sequence-annotation file and nothing else (the frame-annotation file is
\* not opened), and never reaches load() or dump().
C8_OnlySequenceAnnoRead ==
    CO3D_AbsentSequence =>
        /\ pc = "dead"
        /\ err = "ValueError: Sequence info not found"
        /\ trace = <<"read_sequence_anno">>
        /\ proc.metadata = <<>>
        /\ runs = <<>>

\* C8 witness: the constructor has raised for the absent sequence seqX while the
\* frame-annotation file holds frames of other sequences.
C8_AbsentSequenceRaised ==
    /\ CO3D_AbsentSequence
    /\ args.sequence_name = "seqX"
    /\ Len(disk.frame_anno) >= 3
    /\ pc = "dead"

Identity3 == <<<<1, 0, 0>>, <<0, 1, 0>>, <<0, 0, 1>>>>

\* C9: the CO3D pose of rotation R and translation T has translation
\* (-T[0], -T[1], T[2]), a rotation block that is the transpose of R with its
\* first two columns negated (entry (i, j) is R[j][i], negated when i is one of
\* the first two rows), and bottom row (0, 0, 0, 1); R = I and T = (1, 2, 3)
\* give translation (-1, -2, 3) and rotation diag(-1, -1, 1).
C9_PoseConversion ==
    fout # <<>> =>
        LET pose == fout[1] IN
        /\ \A i \in 1..3 :
               pose[i][4] = IF i <= 2 THEN -fin.T[i] ELSE fin.T[i]
        /\ \A i \in 1..3, j \in 1..3 :
               pose[i][j] = IF i <= 2 THEN -fin.R[j][i] ELSE fin.R[j][i]
        /\ pose[4] = <<0, 0, 0, 1>>
        /\ (fin.R = Identity3 /\ fin.T = <<1, 2, 3>>) =>
               pose = << <<-1, 0, 0, -1>>, <<0, -1, 0, -2>>,
                         <<0, 0, 1, 3>>, <<0, 0, 0, 1>> >>

\* C9 witness: the pose of a rotation that is not symmetric was computed.
C9_AsymmetricPoseComputed ==
    /\ fout # <<>>
    /\ fin.R = <<<<1, 4, -7>>, <<1, 0, 0>>, <<0, 0, 1>>>>
    /\ fin.T = <<1, 2, 3>>
    /\ fout[1][1] = <<-1, -1, 0, -1>>

\* the mask that is 0 on rows y1..y2-1 and columns x1..x2-1 and 255 elsewhere
BoxMask(x1, y1, x2, y2, H, W) ==
    [y \in 0..(H - 1) |-> [x \in 0..(W - 1) |->
        IF y1 <= y /\ y < y2 /\ x1 <= x /\ x < x2 THEN 0 ELSE 255]]

\* C10 (as stated): in both modes the mask written for a box file holding
\* (x1, y1, x2, y2) is 0 exactly on rows y1..y2-1 and columns x1..x2-1.
C10_CornersInBothModes ==
    fout # <<>> =>
        fout[1] = BoxMask(fin.box[1], fin.box[2], fin.box[3], fin.box[4],
                          fin.H, fin.W)

\* C10 (amended): the mask is 0 exactly on rows y1..y2-1 and columns x1..x2-1
\* of the canvas, where in test mode the box file holds (x1, y1, x2, y2) and in
\* train mode it holds (x1, y1, w, h) with x2 = x1 + w and y2 = y1 + h (the four
\* values being pixel coordinates and sizes, none negative).
C10_BoxMask ==
    fout # <<>> =>
        fout[1] = IF fin.split = "train"
                  THEN BoxMask(fin.box[1], fin.box[2], fin.box[1] + fin.box[3],
                               fin.box[2] + fin.box[4], fin.H, fin.W)
                  ELSE BoxMask(fin.box[1], fin.box[2], fin.box[3], fin.box[4],
                               fin.H, fin.W)

\* C10 witness: a train-mode box at (1, 1) of width 1 and height 2 on a 3 x 3
\* canvas was drawn: two pixels are 0.
C10_TrainBoxDrawn ==
    /\ fout # <<>>
    /\ fin.split = "train"
    /\ fin.box = <<1, 1, 1, 2>>
    /\ fin.H = 3 /\ fin.W = 3
    /\ fout[1][1][1] = 0 /\ fout[1][2][1] = 0 /\ fout[1][2][2] = 255

\* the camera models CarProcessor._parse_annotations unpacks
Car_supported == {"SIMPLE_PINHOLE", "SIMPLE_RADIAL", "PINHOLE"}

\* <<fx, fy, cx, cy>> as the three supported camera models define them
Car_unpacked(model, params) ==
    IF model = "PINHOLE"
    THEN <<params[1], params[2], params[3], params[4]>>
    ELSE <<params[1], params[1], params[2], params[3]>>

\* C11: once a Car adapter's constructor has run, every metadata entry it built
\* holds the intrinsics of its image unpacked by a supported camera model
\* (SIMPLE_PINHOLE and SIMPLE_RADIAL: fx = fy = params[0], (cx, cy) =
\* params[1..2]; PINHOLE: (fx, fy, cx, cy) = params[0..3]); and if any image of
\* the COLMAP model has another camera model, the constructor has raised the
\* unsupported-camera-model error and process() is never run.
C11_UnsupportedModelRaises ==
    (args.kind = "Car" /\ pc # "new") =>
        /\ \A i \in 1..Len(proc.metadata) :
               /\ disk.images[i].model \in Car_supported
               /\ proc.metadata[i].intrinsics.val =
                      Car_unpacked(disk.images[i].model, disk.images[i].params)
        /\ pc = "ready" => Len(proc.metadata) = Len(disk.images)
        /\ (\E i \in 1..Len(disk.images) : disk.images[i].model \notin Car_supported)
               => /\ pc = "dead"
                  /\ err = "ValueError: Unsupported camera model"
                  /\ runs = <<>>

\* C11 witness: the constructor has raised at the third image, an OPENCV camera,
\* after it unpacked two PINHOLE images.
C11_ThirdImageUnsupported ==
    /\ args.kind = "Car"
    /\ pc = "dead"
    /\ Len(disk.images) = 3
    /\ disk.images[1].model = "PINHOLE"
    /\ disk.images[3].model = "OPENCV"
    /\ err = "ValueError: Unsupported camera model"
    /\ Len(proc.metadata) = 2
    /\ proc.metadata[2].intrinsics.val = <<12, 22, 32, 42>>

\* the steps of Processor._load_data, in the order the claim gives
LoadSteps == <<"load_rgb_files", "load_mask_files", "load_poses", "load_intrinsics">>

\* the steps of Processor._dump_data
DumpSteps == {"rmtree", "makedirs", "frame"}

\* the exceptions a process() call raises before its dump: the unset dataset
\* identifier, the invalid split, and those of the load operations
PreDumpErrors ==
    { "ValueError: The base class cannot be used directly",
      "ValueError: Split should be either train or test",
      "NotImplementedError", "FileNotFoundError",
      "AssertionError: File should contain a 3x4 matrix" }

\* C12: in every process() call made so far, the load operations that ran are
\* an initial part of RGB, mask, pose, intrinsics in that order; a call that
\* took any step of the dump first ran all four of them; and a call that ended
\* with the dataset identifier unset or with a failed load operation took no
\* step of the dump and left the files of the output tree as they were.
C12_LoadBeforeDump ==
    \A k \in 1..Len(runs) :
        LET r == runs[k]
            loads == SelectSeq(r.trace, LAMBDA s : s \in Range(LoadSteps))
        IN  /\ Len(loads) <= 4
            /\ loads = SubSeq(LoadSteps, 1, Len(loads))
            /\ (\E i \in 1..Len(r.trace) : r.trace[i] \in DumpSteps)
                   => /\ Len(r.trace) > 4
                      /\ SubSeq(r.trace, 1, 4) = LoadSteps
            /\ r.tree # r.before => "makedirs" \in Range(r.trace)
            /\ r.err \in PreDumpErrors
                   => /\ r.tree = r.before
                      /\ \A i \in 1..Len(r.trace) : r.trace[i] \notin DumpSteps

\* C12 witness: process('train') on an output root that holds files of an
\* earlier run failed in the third load operation, after the RGB and mask lists
\* were loaded, and the earlier files are still there.
C12_PoseLoadFailedTreeKept ==
    /\ runs # <<>>
    /\ LastRun.split = "train"
    /\ LastRun.err = "AssertionError: File should contain a 3x4 matrix"
    /\ LastRun.trace = <<"load_rgb_files", "load_mask_files", "load_poses">>
    /\ Len(proc.rgb_files) >= 2
    /\ LastRun.before = StaleTree
    /\ fs = StaleTree

\* C13: between the process(split) calls of a LINEMOD_Onepose adapter, however
\* each call ended, the adapter's output_path is the output root given at
\* construction, and every call with a valid split dumps to <output root>/<split>.
C13_OutputPathRestored ==
    (args.kind = "LINEMOD_Onepose" /\ pc = "ready") =>
        /\ proc.output_path = OutputRoot
        /\ \A k \in 1..Len(runs) :
               runs[k].split \in {"train", "test"}
                   => runs[k].outdir = OutputRoot \o <<runs[k].split>>

\* C14: after a process() call of a LINEMOD adapter that returned normally,
\* every pose file and every intrinsics file of the dump, written under the stem
\* of the RGB file of frame number n, holds the scene_gt.json / scene_camera.json
\* entry whose key is n, whatever the order of the keys and whatever frame
\* indices are missing.
C14_AnnotationOfSameFrame ==
    (args.kind = "LINEMOD" /\ RunSucceeded) =>
        \A f \in Under(fs, LastRun.outdir) :
            f.data.kind \in {"pose", "intrinsics"}
                => \E n \in disk.rgb_dir :
                       /\ f.name = <<Num(n), ".", "txt">>
                       /\ f.data.val = <<n>>

====
